---- MODULE Spec2Model ----
(***************************************************************************)
(* CompositeDataReader (Source/Readers, CompositeDataReader.cpp): the      *)
(* epoch life cycle and the single-slot prefetch of minibatches.           *)
(*                                                                         *)
(* rd is the reader under analysis, driven by a caller thread (position    *)
(* rd.pc) and, when m_launchType is launch::async, by the thread that      *)
(* std::async starts for each prefetch task.  tw is a second reader that   *)
(* receives the same calls, is configured with prefetch=false              *)
(* (launch::deferred) and runs every call to completion at once: it is the *)
(* reference run for the sync/async comparison.  streams is the data the   *)
(* packers produce: the i-th ReadMinibatch of the packer of the e-th       *)
(* started epoch returns the kind at position i of streams[e]; a kind is   *)
(* chosen when a reader first reads it and is forgotten once every reader  *)
(* holding that packer has read it.                                        *)
(*                                                                         *)
(* Besides the members of the class, a reader record carries what the      *)
(* caller has observed: last (the outcome of the last completed call: its  *)
(* result ret, the minibatch mb it consumed, and for a successful start    *)
(* the cursor of the packer it retired) and, per packer, the numbers of    *)
(* calls made and of minibatches consumed and delivered; ended says that   *)
(* the packer in place has returned a minibatch with endOfEpoch since the  *)
(* last StartMinibatchLoop call began, nPast counts the tasks launched     *)
(* after that.                                                             *)
(*                                                                         *)
(* zip is a ZipByteReader with the threads inside its Read (ZipSpec), part *)
(* the chunks the workers of a distributed epoch keep (PartSpec); each is  *)
(* at rest in the behaviours of the other specifications.                  *)
(***************************************************************************)
EXTENDS Integers, Sequences, FiniteSets, TLC

\* epochs a run starts (successful StartEpoch calls)
MaxEpochs == 2

\* calls per epoch after the one that started it (GetMinibatch calls and
\* failed StartMinibatchLoop calls)
MaxCalls == 4

\* threads that call ZipByteReader::Read, and Read calls they make in all
NThreads == 2

MaxReads == 3

\* chunks of the data set, workers, and epoch indices of the partitioning
MaxChunks == 8

MaxWorkers == 3

MaxEpochIndex == 2

\* requestedEpochSamples values passed by the caller (0 is the invalid one)
EpochSizes == {0, 10}

\* device ids of the caller's matrices, one per requested stream
DeviceSets == {<<0, 0>>, <<0, 1>>}

\* what one ReadMinibatch can yield: n samples of data, the endOfEpoch flag,
\* or an exception (err); cols[s] is the number of columns of the layout of
\* stream s of the minibatch (stream->m_layout), the same for both streams or
\* not
Kinds ==
    { [n |-> 4, eoe |-> FALSE, err |-> FALSE, cols |-> <<4, 4>>],
      [n |-> 2, eoe |-> TRUE,  err |-> FALSE, cols |-> <<2, 1>>],
      [n |-> 0, eoe |-> FALSE, err |-> FALSE, cols |-> <<0, 0>>],
      [n |-> 0, eoe |-> TRUE,  err |-> FALSE, cols |-> <<0, 0>>],
      [n |-> 0, eoe |-> FALSE, err |-> TRUE,  cols |-> <<0, 0>>] }

\* the builds of the program: assert() active, or compiled out (NDEBUG)
Builds == {[asserts |-> TRUE], [asserts |-> FALSE]}

\* what future::get() on a future without shared state does (undefined
\* behaviour; the libraries throw future_error(no_state))
NoStateOutcomes == {"throw", "abort"}

VARIABLES rd, tw, streams, build, zip, part

vars == <<rd, tw, streams, build, zip, part>>

NoTag == <<0, 0>>
NoCall == [op |-> "none", size |-> 0, devs |-> <<>>]
NoMB == [tag |-> NoTag, n |-> 0, eoe |-> FALSE, err |-> FALSE, cols |-> <<0, 0>>]
NoPacker == [id |-> 0, pos |-> 0]

----------------------------------------------------------------------------
\* Packer (SampleModePacker / SequencePacker): a cursor p into its stream.
\* streams[e] = [off, win]: win holds the kinds at positions off+1, off+2, ...

KindAt(st, p, k) ==
    LET s == st[p.id]
    IN  IF p.pos - s.off \in 1..Len(s.win) THEN s.win[p.pos - s.off] ELSE k

Reveal(st, p, k) ==
    IF p.id > 0 /\ p.pos = st[p.id].off + Len(st[p.id].win) + 1
    THEN [st EXCEPT ![p.id].win = Append(@, k)]
    ELSE st

\* the kinds the next read of p can yield: the one its stream holds there, or
\* any when that position has not been read before
AnyKind == CHOOSE k \in Kinds : TRUE

Fresh(st, p) ==
    IF p.id = 0 THEN {AnyKind}
    ELSE IF p.pos - st[p.id].off \in 1..Len(st[p.id].win) THEN {st[p.id].win[p.pos - st[p.id].off]}
    ELSE Kinds

ReadMinibatch(p, st, k) ==
    LET kd == KindAt(st, p, k)
    IN  [tag |-> <<p.id, p.pos>>, n |-> kd.n, eoe |-> kd.eoe, err |-> kd.err,
         cols |-> kd.cols]

----------------------------------------------------------------------------
\* std::future / std::async

Remove(tasks, t) == [i \in DOMAIN tasks \ {t} |-> tasks[i]]

NewTaskId(tasks) ==
    CHOOSE i \in 1..(Cardinality(DOMAIN tasks) + 1) :
        /\ i \notin DOMAIN tasks
        /\ \A j \in 1..(i - 1) : j \in DOMAIN tasks

\* (mutant) the task calls ReadMinibatch twice and returns the second result
RunTask_ReadsTwice(r, t, st, k) ==
    [r EXCEPT !.tasks[t].status = "ready",
              !.tasks[t].res = ReadMinibatch([r.m_packer EXCEPT !.pos = @ + 1], st, k),
              !.m_packer.pos = @ + 2]

\* the body of the lambda [this]() { return m_packer->ReadMinibatch(); }
\* run for task t: m_packer is read when the task executes
RunTask(r, t, st, k) ==
    LET mb == ReadMinibatch(r.m_packer, st, k)
    IN  [r EXCEPT !.tasks[t].status = "ready",
                  !.tasks[t].res = mb,
                  !.m_packer.pos = @ + 1,
                  !.ended = @ \/ (mb.eoe /\ ~mb.err)]

\* std::async(m_launchType, lambda): a new shared state
Async(r, t) ==
    [r EXCEPT !.tasks = (t :> [status |-> "pending", policy |-> r.m_launchType,
                               awaited |-> FALSE, res |-> NoMB]) @@ @,
              !.nPast = IF r.ended THEN @ + 1 ELSE @]

\* future::wait() / future::get() on t can return: an async task has finished,
\* a deferred one is run by the waiting thread
CanAwait(r, t) ==
    \/ r.tasks[t].status = "ready"
    \/ r.tasks[t].policy = "deferred"

Await(r, t, st, k) ==
    LET r1 == IF r.tasks[t].status = "pending" THEN RunTask(r, t, st, k) ELSE r
    IN  [r1 EXCEPT !.tasks[t].awaited = TRUE]

----------------------------------------------------------------------------
\* the end of a call, and what the caller observes of it

Return(r, op, ret, mb) ==
    [r EXCEPT !.pc = "idle", !.call = NoCall,
              !.last = [op |-> op, ret |-> ret, mb |-> mb,
                        retired |-> IF ret = "ok" THEN r.prev ELSE NoPacker],
              !.nCalls = IF ret = "ok" THEN @ ELSE @ + 1,
              !.nTrue = IF ret = "true" THEN @ + 1 ELSE @,
              !.sawFalse = @ \/ ret = "false"]

\* assert(false) / abort(): the process ends inside the call
Abort(r, op) ==
    [r EXCEPT !.pc = "aborted",
              !.last = [op |-> op, ret |-> "abort", mb |-> NoMB, retired |-> NoPacker]]

----------------------------------------------------------------------------
\* StartDistributedMinibatchLoop

\* (mutant) the call goes on to StartEpoch without the wait
StartCallOp_SkipsWait(r, size) ==
    [r EXCEPT !.call = [op |-> "start", size |-> size, devs |-> <<>>],
              !.m_endOfEpoch = FALSE,
              !.sawEoe = FALSE, !.sawFalse = FALSE,
              !.ended = FALSE, !.nPast = 0,
              !.pc = "start_epoch"]

StartCallOp(r, size) ==
    [r EXCEPT !.call = [op |-> "start", size |-> size, devs |-> <<>>],
              !.m_endOfEpoch = FALSE,
              !.sawEoe = FALSE, !.sawFalse = FALSE,
              !.ended = FALSE, !.nPast = 0,
              !.pc = "start_wait"]

\* (mutant) the outstanding read is not waited for
WaitOp_NoWait(r, st, k) == [r EXCEPT !.pc = "start_epoch"]

WaitOp(r, st, k) ==
    IF r.m_prefetchTask # 0
    THEN [Await(r, r.m_prefetchTask, st, k) EXCEPT !.pc = "start_epoch"]
    ELSE [r EXCEPT !.pc = "start_epoch"]

StartEpoch(r) ==
    IF r.call.size <= 0
    THEN Return(r, "start", "config_error", NoMB)
    ELSE [r EXCEPT !.m_randomizer = @ + 1,
                   !.m_packer = [id |-> r.m_randomizer + 1, pos |-> 1],
                   !.prev = r.m_packer,
                   !.nCalls = 0, !.nGot = 0, !.nTrue = 0,
                   !.nData = 0, !.nSamples = 0,
                   !.ended = FALSE,
                   !.pc = "start_launch"]

StartLaunchOp(r) ==
    LET t == NewTaskId(r.tasks)
    IN  [Async(r, t) EXCEPT !.newTask = t, !.pc = "start_assign"]

\* the move assignment releases the state m_prefetchTask held before
CanAssign(r) ==
    IF r.m_prefetchTask = 0
    THEN TRUE
    ELSE r.tasks[r.m_prefetchTask].status = "ready"
            \/ r.tasks[r.m_prefetchTask].policy = "deferred"

\* (mutant) a future that is still valid is kept, the new one dropped
StartAssignOp_KeepsOld(r) ==
    LET keep == r.m_prefetchTask # 0
        r1 == IF keep THEN [r EXCEPT !.tasks = Remove(@, r.newTask)]
              ELSE [r EXCEPT !.m_prefetchTask = r.newTask]
        r2 == Return([r1 EXCEPT !.newTask = 0], "start", "ok", NoMB)
    IN  [r2 EXCEPT !.prev = NoPacker]

StartAssignOp(r) ==
    LET old == r.m_prefetchTask
        r1 == IF old # 0 THEN [r EXCEPT !.tasks = Remove(@, old)] ELSE r
        r2 == Return([r1 EXCEPT !.m_prefetchTask = r.newTask, !.newTask = 0],
                     "start", "ok", NoMB)
    IN  [r2 EXCEPT !.prev = NoPacker]

----------------------------------------------------------------------------
\* GetMinibatch

\* (mutant) each device id is compared with itself
SameDevice_Self(devs) == \A i \in 1..Len(devs) : devs[i] = devs[i]

SameDevice(devs) == \A i \in 1..Len(devs) : devs[i] = devs[1]

GetCallOp(r, devs, b, ub) ==
    LET r1 == [r EXCEPT !.call = [op |-> "get", size |-> 0, devs |-> devs]]
    IN  IF r.m_endOfEpoch
        THEN Return(r1, "get", "false", NoMB)
        ELSE IF ~SameDevice(devs) /\ b.asserts
        THEN Abort(r1, "get")
        ELSE IF r.m_prefetchTask = 0
        THEN IF b.asserts \/ ub = "abort"
             THEN Abort(r1, "get")
             ELSE Return(r1, "get", "future_error", NoMB)
        ELSE [r1 EXCEPT !.pc = "get_await"]

\* (mutant) the flag is not set
MarkEndOfEpoch_Never(r, mb) == r

\* if (minibatch.m_endOfEpoch) m_endOfEpoch = true;
MarkEndOfEpoch(r, mb) == [r EXCEPT !.m_endOfEpoch = @ \/ mb.eoe]

\* (mutant) the call returns false at the end of the epoch, data or not
EarlyReturn_OnEndOfEpoch(mb) == mb.eoe

\* if (minibatch.m_endOfEpoch) { ...; if (minibatch.m_data.empty()) return false; }
EarlyReturn(mb) == mb.eoe /\ mb.n = 0

\* one round of the loop over the matrices: m_layout->CopyFrom(stream->m_layout),
\* then SetValue with m_layout->GetNumCols() columns
CopyStream(r, mb, s) ==
    LET r1 == [r EXCEPT !.m_layout = mb.cols[s]]
    IN  [r1 EXCEPT !.cols[s] = r1.m_layout]

RECURSIVE CopyStreams(_, _, _)
CopyStreams(r, mb, s) ==
    IF s > Len(mb.cols) THEN r ELSE CopyStreams(CopyStream(r, mb, s), mb, s + 1)

\* (mutant) the matrices are written whether the minibatch has data or not
CopyToMatrices_Always(r, mb) ==
    [CopyStreams(r, mb, 1) EXCEPT !.buf = mb.tag]

\* the copy of the minibatch to the caller's matrices
CopyToMatrices(r, mb) ==
    IF mb.n > 0 THEN [CopyStreams(r, mb, 1) EXCEPT !.buf = mb.tag] ELSE r

\* m_prefetchTask = std::async(...) at the end of GetMinibatch; t is the id of
\* the new shared state
LaunchNext(r, t) == [Async(r, t) EXCEPT !.m_prefetchTask = t]

\* CopyMBLayoutTo: the caller's layout becomes a copy of m_layout
CopyMBLayoutTo(r) == r.m_layout

\* return !minibatch.m_data.empty();
Delivered(mb) == IF mb.n > 0 THEN "true" ELSE "false"

\* what the caller sees of the minibatch that get() handed over
Consumed(r, mb) ==
    [r EXCEPT !.nGot = @ + 1,
              !.sawEoe = @ \/ (~mb.err /\ mb.eoe),
              !.nData = IF ~mb.err /\ mb.n > 0 THEN @ + 1 ELSE @,
              !.nSamples = IF ~mb.err THEN @ + mb.n ELSE @]

GetAwaitOp(r, st, k) ==
    LET t  == r.m_prefetchTask
        r1 == Await(r, t, st, k)
        mb == r1.tasks[t].res
        r2 == Consumed([r1 EXCEPT !.tasks = Remove(@, t), !.m_prefetchTask = 0], mb)
    IN  IF mb.err
        THEN Return(r2, "get", "error", mb)
        ELSE LET r3 == MarkEndOfEpoch(r2, mb)
             IN  IF EarlyReturn(mb)
                 THEN Return(r3, "get", "false", mb)
                 ELSE Return(LaunchNext(CopyToMatrices(r3, mb), NewTaskId(r1.tasks)),
                             "get", Delivered(mb), mb)

----------------------------------------------------------------------------
\* a call run to completion by a reader whose tasks are all deferred

Step(r, st, k) ==
    CASE r.pc = "start_wait"   -> WaitOp(r, st, k)
      [] r.pc = "start_epoch"  -> StartEpoch(r)
      [] r.pc = "start_launch" -> StartLaunchOp(r)
      [] r.pc = "start_assign" -> StartAssignOp(r)
      [] r.pc = "get_await"    -> GetAwaitOp(r, st, k)
      [] OTHER                 -> r

RunCall(r, st, k) == Step(Step(Step(Step(r, st, k), st, k), st, k), st, k)

\* the streams with the kind revealed by the read, if any, that took r to r2
\* (a step reads at most once, and before it replaces the packer)
RevealRead(st, r, r2, k) ==
    IF r.m_packer.id > 0
          /\ [r.m_packer EXCEPT !.pos = @ + 1] \in {r2.m_packer, r2.prev, r2.last.retired}
    THEN Reveal(st, r.m_packer, k)
    ELSE st

\* the positions of stream e that a reader holding its packer has yet to read
Cursors(e, r2, t2) ==
    {p.pos : p \in {q \in {r2.m_packer, t2.m_packer} : q.id = e}}

Min(S) == CHOOSE x \in S : \A y \in S : x <= y

\* the streams without the kinds that no reader will read again
Held(st, r2, t2) ==
    [e \in DOMAIN st |->
        LET c == Cursors(e, r2, t2)
        IN  IF c = {} THEN [off |-> 0, win |-> <<>>]
            ELSE LET drop == Min(c) - 1 - st[e].off
                 IN  IF drop > 0
                     THEN [off |-> st[e].off + drop,
                           win |-> SubSeq(st[e].win, drop + 1, Len(st[e].win))]
                     ELSE st[e]]

----------------------------------------------------------------------------
\* ZipByteReader: the pools m_zips (archive handles) and m_workspace (scratch
\* buffers), conc_stack objects whose push and pop are atomic, and the
\* threads inside Read.  A handle or buffer is a number; 0 is none.

Threads == 1..NThreads

NewZipByteReader ==
    [m_zips |-> <<>>, m_workspace |-> <<>>,
     opened |-> 0, created |-> 0, peak |-> 0,
     th |-> [t \in Threads |-> [pc |-> "idle", zipFile |-> 0, contents |-> 0, reads |-> 0]]]

InFlight(z) == {t \in Threads : z.th[t].pc # "idle"}

Max(a, b) == IF a >= b THEN a ELSE b

RECURSIVE Returned(_, _)
Returned(z, t) == IF t = 0 THEN 0 ELSE z.th[t].reads + Returned(z, t - 1)

\* the Read calls made so far
Started(z) == Returned(z, NThreads) + Cardinality(InFlight(z))

\* a thread enters Read
ReadBeginOp(z, t) ==
    LET z1 == [z EXCEPT !.th[t].pc = "pop_workspace"]
    IN  [z1 EXCEPT !.peak = Max(@, Cardinality(InFlight(z1)))]

\* m_workspace.pop_or_create(...): the top of the pool, or a new buffer
PopWorkspaceOp(z, t) ==
    IF z.m_workspace # <<>>
    THEN [z EXCEPT !.th[t].contents = Head(z.m_workspace),
                   !.m_workspace = Tail(@),
                   !.th[t].pc = "pop_zip"]
    ELSE [z EXCEPT !.th[t].contents = z.created + 1,
                   !.created = @ + 1,
                   !.th[t].pc = "pop_zip"]

\* (mutant) the top handle is handed out and left in the pool
PopZipOp_Peeks(z, t) ==
    IF z.m_zips # <<>>
    THEN [z EXCEPT !.th[t].zipFile = Head(z.m_zips),
                   !.th[t].pc = "read"]
    ELSE [z EXCEPT !.th[t].zipFile = z.opened + 1,
                   !.opened = @ + 1,
                   !.th[t].pc = "read"]

\* (mutant) every Read opens the archive
PopZipOp_AlwaysOpens(z, t) ==
    [z EXCEPT !.th[t].zipFile = z.opened + 1,
              !.opened = @ + 1,
              !.th[t].pc = "read"]

\* m_zips.pop_or_create([this]() { return OpenZip(); })
PopZipOp(z, t) ==
    IF z.m_zips # <<>>
    THEN [z EXCEPT !.th[t].zipFile = Head(z.m_zips),
                   !.m_zips = Tail(@),
                   !.th[t].pc = "read"]
    ELSE [z EXCEPT !.th[t].zipFile = z.opened + 1,
                   !.opened = @ + 1,
                   !.th[t].pc = "read"]

\* the entry is read through the handle into the buffer, then the handle
\* goes back: m_zips.push(std::move(zipFile))
PushZipOp(z, t) ==
    [z EXCEPT !.m_zips = <<z.th[t].zipFile>> \o @,
              !.th[t].zipFile = 0,
              !.th[t].pc = "push_workspace"]

\* the image is decoded from the buffer, then the buffer goes back:
\* m_workspace.push(std::move(contents)); Read returns
PushWorkspaceOp(z, t) ==
    [z EXCEPT !.m_workspace = <<z.th[t].contents>> \o @,
              !.th[t].contents = 0,
              !.th[t].reads = @ + 1,
              !.th[t].pc = "idle"]

\* no worker has started an epoch
NoPartition ==
    [chunks |-> 0, n |-> 0, epoch |-> 0, ran |-> {}, reran |-> {},
     own |-> <<>>, rerun |-> <<>>]

----------------------------------------------------------------------------

NewReader(launch, eoe) ==
    [pc |-> "idle", call |-> NoCall,
     m_launchType |-> launch, m_endOfEpoch |-> eoe,
     m_prefetchTask |-> 0, newTask |-> 0, tasks |-> <<>>,
     m_packer |-> NoPacker, m_randomizer |-> 0, prev |-> NoPacker,
     buf |-> NoTag, m_layout |-> 0, cols |-> <<0, 0>>,
     last |-> [op |-> "none", ret |-> "none", mb |-> NoMB, retired |-> NoPacker],
     nCalls |-> 0, nGot |-> 0, nTrue |-> 0, nData |-> 0, nSamples |-> 0,
     sawEoe |-> FALSE, sawFalse |-> FALSE, ended |-> FALSE, nPast |-> 0]

Init ==
    /\ build \in Builds
    /\ \E launch \in {"async", "deferred"}, eoe \in BOOLEAN :
          /\ rd = NewReader(launch, eoe)
          /\ tw = NewReader("deferred", eoe)
    /\ streams = [e \in 1..MaxEpochs |-> [off |-> 0, win |-> <<>>]]
    /\ zip = NewZipByteReader
    /\ part = NoPartition

Caller(r2, t2, k) ==
    /\ rd' = r2
    /\ tw' = t2
    /\ streams' = Held(RevealRead(RevealRead(streams, rd, r2, k), tw, t2, k), r2, t2)
    /\ UNCHANGED <<build, zip, part>>

StartMinibatchLoop ==
    /\ rd.pc = "idle"
    /\ \E size \in EpochSizes, k \in Fresh(streams, tw.m_packer) :
          /\ IF size > 0 THEN rd.m_randomizer < MaxEpochs ELSE rd.nCalls < MaxCalls
          /\ Caller(StartCallOp(rd, size),
                    IF tw.pc = "idle"
                    THEN RunCall(StartCallOp(tw, size), streams, k)
                    ELSE tw,
                    k)

StartWait ==
    /\ rd.pc = "start_wait"
    /\ IF rd.m_prefetchTask = 0 THEN TRUE ELSE CanAwait(rd, rd.m_prefetchTask)
    /\ \E k \in Fresh(streams, rd.m_packer) : Caller(WaitOp(rd, streams, k), tw, k)

StartEpochStep ==
    /\ rd.pc = "start_epoch"
    /\ Caller(StartEpoch(rd), tw, AnyKind)

StartLaunch ==
    /\ rd.pc = "start_launch"
    /\ Caller(StartLaunchOp(rd), tw, AnyKind)

StartAssign ==
    /\ rd.pc = "start_assign"
    /\ CanAssign(rd)
    /\ Caller(StartAssignOp(rd), tw, AnyKind)

GetMinibatch ==
    /\ rd.pc = "idle"
    /\ rd.nCalls < MaxCalls
    /\ \E devs \in DeviceSets, ub \in NoStateOutcomes, k \in Fresh(streams, tw.m_packer) :
          Caller(GetCallOp(rd, devs, build, ub),
                 IF tw.pc = "idle"
                 THEN RunCall(GetCallOp(tw, devs, build, ub), streams, k)
                 ELSE tw,
                 k)

GetAwait ==
    /\ rd.pc = "get_await"
    /\ CanAwait(rd, rd.m_prefetchTask)
    /\ \E k \in Fresh(streams, rd.m_packer) : Caller(GetAwaitOp(rd, streams, k), tw, k)

\* the thread std::async(launch::async, ...) started for task t
PrefetchThread ==
    /\ rd.pc # "aborted"
    /\ \E t \in DOMAIN rd.tasks, k \in Fresh(streams, rd.m_packer) :
          /\ rd.tasks[t].policy = "async"
          /\ rd.tasks[t].status = "pending"
          /\ Caller(RunTask(rd, t, streams, k), tw, k)

Next ==
    \/ StartMinibatchLoop
    \/ StartWait
    \/ StartEpochStep
    \/ StartLaunch
    \/ StartAssign
    \/ GetMinibatch
    \/ GetAwait
    \/ PrefetchThread

Spec == Init /\ [][Next]_vars

----------------------------------------------------------------------------
\* ZipByteReader::Read, thread by thread

ZipInit ==
    /\ rd = NewReader("deferred", FALSE)
    /\ tw = NewReader("deferred", FALSE)
    /\ streams = [e \in 1..MaxEpochs |-> [off |-> 0, win |-> <<>>]]
    /\ build = [asserts |-> TRUE]
    /\ zip = NewZipByteReader
    /\ part = NoPartition

ReadBegin(t) ==
    /\ zip.th[t].pc = "idle"
    /\ Started(zip) < MaxReads
    /\ zip' = ReadBeginOp(zip, t)
    /\ UNCHANGED <<rd, tw, streams, build, part>>

PopWorkspace(t) ==
    /\ zip.th[t].pc = "pop_workspace"
    /\ zip' = PopWorkspaceOp(zip, t)
    /\ UNCHANGED <<rd, tw, streams, build, part>>

PopZip(t) ==
    /\ zip.th[t].pc = "pop_zip"
    /\ zip' = PopZipOp(zip, t)
    /\ UNCHANGED <<rd, tw, streams, build, part>>

PushZip(t) ==
    /\ zip.th[t].pc = "read"
    /\ zip' = PushZipOp(zip, t)
    /\ UNCHANGED <<rd, tw, streams, build, part>>

PushWorkspace(t) ==
    /\ zip.th[t].pc = "push_workspace"
    /\ zip' = PushWorkspaceOp(zip, t)
    /\ UNCHANGED <<rd, tw, streams, build, part>>

\* the steps of thread t inside Read
ReadStep(t) ==
    \/ PopWorkspace(t)
    \/ PopZip(t)
    \/ PushZip(t)
    \/ PushWorkspace(t)

ZipNext == \E t \in Threads : ReadBegin(t) \/ ReadStep(t)

\* a thread inside Read is scheduled again and again; no step of Read waits
ZipSpec == ZipInit /\ [][ZipNext]_vars /\ \A t \in Threads : WF_vars(ReadStep(t))

----------------------------------------------------------------------------
\* The chunks of an epoch and the workers: each worker calls
\* StartDistributedMinibatchLoop with its rank, and its BlockRandomizer
\* (DecimationMode::chunk) keeps the chunks of that rank.

\* (mutant) the rank is not passed on (as in StartMinibatchLoop)
EpochConfiguration_RankZero(requestedMBSize, epoch, subsetNum, numSubsets, requestedEpochSamples) ==
    [m_workerRank |-> 0,
     m_numberOfWorkers |-> numSubsets,
     m_minibatchSizeInSamples |-> requestedMBSize,
     m_totalEpochSizeInSamples |-> requestedEpochSamples,
     m_epochIndex |-> epoch]

EpochConfiguration(requestedMBSize, epoch, subsetNum, numSubsets, requestedEpochSamples) ==
    [m_workerRank |-> subsetNum,
     m_numberOfWorkers |-> numSubsets,
     m_minibatchSizeInSamples |-> requestedMBSize,
     m_totalEpochSizeInSamples |-> requestedEpochSamples,
     m_epochIndex |-> epoch]

Chunks(K) == 0..(K - 1)

\* the chunk at each position of the order the randomizer derives from the
\* epoch index (the seed); every worker derives the same one
RandomizedChunks(K, seed) == [i \in Chunks(K) |-> (i + seed) % K]

\* the chunks worker config.m_workerRank keeps: those at the positions
\* congruent to its rank modulo the number of workers
Decimate(config, K) ==
    {RandomizedChunks(K, config.m_epochIndex)[i] :
        i \in {j \in Chunks(K) : j % config.m_numberOfWorkers = config.m_workerRank}}

PartInit ==
    /\ rd = NewReader("deferred", FALSE)
    /\ tw = NewReader("deferred", FALSE)
    /\ streams = [e \in 1..MaxEpochs |-> [off |-> 0, win |-> <<>>]]
    /\ build = [asserts |-> TRUE]
    /\ zip = NewZipByteReader
    /\ \E K \in 1..MaxChunks, n \in 1..MaxWorkers, e \in 0..MaxEpochIndex :
          part = [chunks |-> K, n |-> n, epoch |-> e, ran |-> {}, reran |-> {},
                  own |-> [r \in 0..(n - 1) |-> {}],
                  rerun |-> [r \in 0..(n - 1) |-> {}]]

\* worker r starts the epoch
StartRank(r) ==
    /\ r \notin part.ran
    /\ part' = [part EXCEPT
                  !.ran = @ \cup {r},
                  !.own[r] = Decimate(EpochConfiguration(4, part.epoch, r, part.n, 10),
                                      part.chunks)]
    /\ UNCHANGED <<rd, tw, streams, build, zip>>

\* worker r starts the same epoch in another run
RerunRank(r) ==
    /\ r \in part.ran \ part.reran
    /\ part' = [part EXCEPT
                  !.reran = @ \cup {r},
                  !.rerun[r] = Decimate(EpochConfiguration(4, part.epoch, r, part.n, 10),
                                        part.chunks)]
    /\ UNCHANGED <<rd, tw, streams, build, zip>>

PartNext == \E r \in 0..(part.n - 1) : StartRank(r) \/ RerunRank(r)

PartSpec == PartInit /\ [][PartNext]_vars

----------------------------------------------------------------------------
\* Properties

Outstanding(r) == {t \in DOMAIN r.tasks : ~r.tasks[t].awaited}

Unfinished(r) == {t \in DOMAIN r.tasks : r.tasks[t].status # "ready"}

Mixed(devs) == \E i, j \in 1..Len(devs) : devs[i] # devs[j]

\* the caller makes a GetMinibatch call in this step
GetStep ==
    /\ rd.pc = "idle"
    /\ \/ rd'.pc \in {"get_await", "aborted"}
       \/ rd'.nCalls = rd.nCalls + 1 /\ rd'.last.op = "get"

\* the last completed call consumed a minibatch of the packer now in place
ConsumedHere(r) ==
    r.last.op = "get" /\ r.m_packer.id > 0 /\ r.last.mb.tag[1] = r.m_packer.id

FalseAtOnce == [op |-> "get", ret |-> "false", mb |-> NoMB, retired |-> NoPacker]

\* C1: at most one prefetch task is launched and not yet awaited or consumed,
\* at most one has not run to completion, and when a new task is launched
\* while the reader still holds the previous one, that one has completed and
\* been awaited.
C1_OnePrefetchOutstanding ==
    /\ Cardinality(Outstanding(rd)) <= 1
    /\ Cardinality(Unfinished(rd)) <= 1
    /\ rd.newTask # 0 /\ rd.m_prefetchTask # 0 =>
          /\ rd.tasks[rd.m_prefetchTask].status = "ready"
          /\ rd.tasks[rd.m_prefetchTask].awaited

C1_Witness ==
    /\ rd.pc = "start_assign"
    /\ rd.m_launchType = "async"
    /\ rd.m_prefetchTask # 0
    /\ Cardinality(DOMAIN rd.tasks) = 2

\* C2: once a GetMinibatch call has consumed a minibatch with endOfEpoch set,
\* and until the next StartMinibatchLoop call, every GetMinibatch call returns
\* false at once: it awaits and launches no task, reads nothing from the
\* packer and copies nothing.
C2_FalseAfterEndOfEpoch ==
    [][GetStep /\ rd.sawEoe =>
          /\ rd'.pc = "idle"
          /\ rd'.last = FalseAtOnce
          /\ rd'.tasks = rd.tasks
          /\ rd'.m_prefetchTask = rd.m_prefetchTask
          /\ rd'.m_packer = rd.m_packer
          /\ rd'.buf = rd.buf]_vars

C2_Witness ==
    /\ rd.sawEoe
    /\ rd.last = FalseAtOnce
    /\ rd.m_prefetchTask # 0
    /\ rd.m_randomizer = 2

\* C3: since the last StartMinibatchLoop call, no GetMinibatch call has
\* returned true after one that returned false, and a call that returned
\* false has left the reader at the end of the epoch.
C3_FalseIsFinal ==
    /\ ~(rd.sawFalse /\ rd.last.op = "get" /\ rd.last.ret = "true")
    /\ rd.pc = "idle" /\ rd.last.op = "get" /\ rd.last.ret = "false" => rd.m_endOfEpoch

\* C4: the call that consumes a minibatch with endOfEpoch set returns true when
\* the minibatch has data and false when it has none, and the call after one
\* that delivered the last minibatch returns false at once; so when the k
\* minibatches consumed from a packer all had data and the k-th had
\* endOfEpoch set, k calls have returned true.
C4_EndOfEpochDelivery ==
    /\ [](ConsumedHere(rd) /\ rd.last.mb.eoe =>
            /\ rd.last.mb.n > 0 => rd.last.ret = "true" /\ rd.buf = rd.last.mb.tag
            /\ rd.last.mb.n = 0 => rd.last.ret = "false"
            /\ rd.nData = rd.nGot => rd.nTrue = rd.nGot)
    /\ [][GetStep /\ rd.last.op = "get" /\ rd.last.mb.eoe /\ rd.last.mb.n > 0 =>
            rd'.last = FalseAtOnce /\ rd'.nTrue = rd.nTrue]_vars

\* sizes [4, 4, 2] with endOfEpoch on the third: three calls returned true,
\* the fourth false
C4_Witness ==
    /\ rd.nGot = 3 /\ rd.nData = 3 /\ rd.nSamples = 10
    /\ rd.nTrue = 3 /\ rd.nCalls = 4
    /\ rd.sawEoe
    /\ rd.last = FalseAtOnce

\* C5: between calls, the reader and the reference reader (launch::deferred,
\* same calls, same packer output) have returned the same result from the
\* last call, hold the same data and flag and have delivered as much; their
\* randomizers have started the same epochs, each retired packer had been
\* read as often, and the current packer has been read as often, or once
\* more by the reader that prefetches.
C5_SyncAsyncEquivalent ==
    rd.pc \in {"idle", "aborted"} =>
        /\ tw.pc = rd.pc
        /\ tw.last = rd.last
        /\ tw.buf = rd.buf
        /\ tw.m_endOfEpoch = rd.m_endOfEpoch
        /\ tw.nTrue = rd.nTrue /\ tw.nGot = rd.nGot /\ tw.nSamples = rd.nSamples
        /\ tw.m_randomizer = rd.m_randomizer
        /\ tw.m_packer.id = rd.m_packer.id
        /\ rd.m_packer.pos - tw.m_packer.pos \in {0, 1}

C5_Witness ==
    /\ rd.m_launchType = "async"
    /\ rd.pc = "idle"
    /\ rd.m_randomizer = 2
    /\ rd.last.ret = "true"
    /\ rd.nTrue = 2
    /\ rd.m_packer.pos = tw.m_packer.pos + 1

\* C6 as stated: the i-th call that returns true delivers the i-th minibatch
\* its packer produced, and a packer is retired only when every minibatch it
\* produced has been delivered.
C6_EveryMinibatchDelivered ==
    /\ ConsumedHere(rd) /\ rd.last.ret = "true" =>
          rd.last.mb.tag = <<rd.m_packer.id, rd.nTrue>>
    /\ rd.pc = "start_epoch" /\ rd.call.size > 0 /\ rd.m_packer.id > 0 =>
          rd.m_packer.pos - 1 = rd.nTrue

\* C6 amended: the calls consume the minibatches in the order the packer
\* produced them (the j-th consumed is the j-th produced), a call returns
\* true exactly for a consumed minibatch with data and then the caller's
\* matrices hold it, and at most one produced minibatch, the prefetched one,
\* has not been consumed.
C6_DeliveredInOrder ==
    /\ ConsumedHere(rd) =>
          /\ rd.last.mb.tag = <<rd.m_packer.id, rd.nGot>>
          /\ rd.last.ret = "true" <=> rd.last.mb.n > 0 /\ ~rd.last.mb.err
          /\ rd.last.ret = "true" => rd.buf = rd.last.mb.tag
    /\ rd.nTrue = rd.nData
    /\ rd.m_packer.id > 0 => rd.m_packer.pos - 1 - rd.nGot \in {0, 1}

\* an empty minibatch was consumed before the second delivery
C6_Witness ==
    /\ ConsumedHere(rd) /\ rd.last.ret = "true"
    /\ rd.nTrue = 2 /\ rd.nGot = 3
    /\ rd.m_packer.pos = 5

\* C7: when StartDistributedMinibatchLoop restarts the randomizer and replaces
\* the packer, every launched task has run to completion, and no task is ever
\* released before it has run.
C7_EpochSwitchAfterPrefetch ==
    /\ [](rd.pc = "start_epoch" => Unfinished(rd) = {})
    /\ [][\A t \in DOMAIN rd.tasks \ DOMAIN rd'.tasks :
            rd.tasks[t].status = "ready" \/ rd'.m_packer.pos = rd.m_packer.pos + 1]_vars

C7_Witness ==
    /\ rd.pc = "start_epoch"
    /\ rd.call.size > 0
    /\ rd.m_launchType = "async"
    /\ rd.m_prefetchTask # 0
    /\ rd.tasks[rd.m_prefetchTask].awaited

\* C8: the caller's thread, in a StartMinibatchLoop call with an epoch size
\* <= 0, executes no ReadMinibatch and no StartEpoch of the randomizer.
C8_NoIoBeforeConfigError ==
    [][rd.call.op = "start" /\ rd.call.size <= 0 /\ rd'.pc # rd.pc =>
          rd'.m_packer = rd.m_packer /\ rd'.m_randomizer = rd.m_randomizer]_vars

\* C9: the caller does not go on after awaiting a task whose ReadMinibatch
\* failed: the error is thrown where the task is awaited.
C9_PrefetchErrorPropagates ==
    ~(/\ rd.pc \in {"start_launch", "start_assign"}
      /\ rd.m_prefetchTask # 0
      /\ rd.tasks[rd.m_prefetchTask].awaited
      /\ rd.tasks[rd.m_prefetchTask].res.err)

\* C10 as stated, for a build with assertions and a reader that has started
\* an epoch: in every state of the reader, a GetMinibatch call with matrices
\* on different devices ends in the assertion failure, with no task consumed
\* and nothing copied.
C10_MismatchAlwaysFatal ==
    rd.pc = "idle" /\ build.asserts /\ rd.m_randomizer > 0 =>
        \A devs \in DeviceSets, ub \in NoStateOutcomes :
            Mixed(devs) =>
                LET r2 == GetCallOp(rd, devs, build, ub)
                IN  /\ r2.pc = "aborted"
                    /\ r2.tasks = rd.tasks
                    /\ r2.buf = rd.buf

\* C10 amended: with assertions active and the end-of-epoch flag unset, a
\* GetMinibatch call with matrices on different devices ends in the
\* assertion failure, with no task consumed and nothing copied; with the flag
\* set the call returns false at once, whatever the devices.
C10_MismatchFatalWhenChecked ==
    rd.pc = "idle" =>
        \A devs \in DeviceSets, ub \in NoStateOutcomes :
            Mixed(devs) =>
                LET r2 == GetCallOp(rd, devs, build, ub)
                IN  /\ r2.tasks = rd.tasks
                    /\ r2.buf = rd.buf
                    /\ r2.m_prefetchTask = rd.m_prefetchTask
                    /\ rd.m_endOfEpoch => r2.pc = "idle" /\ r2.last = FalseAtOnce
                    /\ ~rd.m_endOfEpoch /\ build.asserts => r2.pc = "aborted"

C10_Witness ==
    /\ rd.pc = "aborted"
    /\ Mixed(rd.call.devs)
    /\ build.asserts
    /\ ~rd.m_endOfEpoch
    /\ rd.m_prefetchTask # 0
    /\ ~rd.tasks[rd.m_prefetchTask].awaited

\* C11: after a GetMinibatch call that returned true, the data in the matrix
\* of every requested stream has as many columns as the layout that
\* CopyMBLayoutTo hands out.
C11_LayoutConsistent ==
    rd.pc = "idle" /\ rd.last.op = "get" /\ rd.last.ret = "true" =>
        \A s \in 1..Len(rd.cols) : rd.cols[s] = CopyMBLayoutTo(rd)

\* C20: a GetMinibatch call that returns false changes neither m_layout nor
\* the caller's matrices, on each of its steps, and the layout CopyMBLayoutTo
\* hands out afterwards is the one of the data the matrices hold, i.e. of the
\* last minibatch delivered.
C20_FalseLeavesLayoutAndBuffers ==
    /\ [](rd.pc = "idle" /\ rd.last.op = "get" /\ rd.last.ret = "false" =>
            CopyMBLayoutTo(rd) = rd.cols[Len(rd.cols)])
    /\ [][/\ rd.pc \in {"idle", "get_await"}
          /\ \/ rd'.pc = "get_await"
             \/ rd'.pc = "idle" /\ rd'.nCalls = rd.nCalls + 1
                   /\ rd'.last.op = "get" /\ rd'.last.ret = "false"
          => /\ rd'.buf = rd.buf
             /\ rd'.cols = rd.cols
             /\ CopyMBLayoutTo(rd') = CopyMBLayoutTo(rd)]_vars

\* a minibatch without data and without endOfEpoch was consumed after a
\* delivery: false, with the delivered data still in the matrices
C20_Witness ==
    /\ rd.pc = "idle"
    /\ rd.last.op = "get" /\ rd.last.ret = "false"
    /\ rd.last.mb.tag # NoTag /\ ~rd.last.mb.eoe
    /\ rd.nTrue = 1
    /\ rd.buf # NoTag /\ rd.buf # rd.last.mb.tag
    /\ CopyMBLayoutTo(rd) = 4

\* C12: the outcome of every call, the data and layout handed to the caller
\* and the place of the end of the epoch are those of the reference run, which
\* is a function of the calls and of the packer's output alone (it is also the
\* run of the prefetching reader in which the thread of a task is scheduled
\* only when the caller awaits the task); so any two runs agree, however the
\* prefetch thread is scheduled.
C12_Deterministic ==
    rd.pc \in {"idle", "aborted"} =>
        /\ rd.last = tw.last
        /\ rd.nCalls = tw.nCalls /\ rd.nGot = tw.nGot
        /\ rd.sawEoe = tw.sawEoe /\ rd.sawFalse = tw.sawFalse
        /\ rd.buf = tw.buf /\ rd.cols = tw.cols
        /\ CopyMBLayoutTo(rd) = CopyMBLayoutTo(tw)

\* the caller got ahead of the prefetch thread: the task it holds has not run
C12_Witness ==
    /\ rd.m_launchType = "async"
    /\ rd.pc = "idle"
    /\ rd.last.ret = "true" /\ rd.nTrue = 2
    /\ rd.sawEoe
    /\ rd.m_prefetchTask # 0
    /\ rd.tasks[rd.m_prefetchTask].status = "pending"

\* C16: between calls, once a StartMinibatchLoop call has been made (whether
\* or not it failed), the reader holds a valid prefetch task whenever the
\* end-of-epoch flag is unset, so assert(m_prefetchTask.valid()) cannot fail.
C16_TaskHeldUnlessEndOfEpoch ==
    /\ rd.pc = "idle"
    /\ rd.m_randomizer > 0 \/ rd.last.op = "start"
    /\ ~rd.m_endOfEpoch
    => rd.m_prefetchTask # 0

\* C17 as stated: once the packer in place has returned a minibatch with
\* endOfEpoch, no ReadMinibatch is executed on it and no task is launched for
\* it.
C17_NoReadPastEndOfEpoch ==
    [][rd'.m_packer.id = rd.m_packer.id =>
          /\ rd.ended => rd'.m_packer = rd.m_packer
          /\ rd'.ended => DOMAIN rd'.tasks \subseteq DOMAIN rd.tasks]_vars

\* C17 amended: after the packer has returned a minibatch with endOfEpoch and
\* up to the next StartMinibatchLoop call, at most one task is launched, by
\* the GetMinibatch call that consumed that minibatch and found data in it.
C17_OneReadPastEndOfEpoch ==
    /\ rd.nPast <= 1
    /\ rd.nPast = 1 /\ rd.pc = "idle" =>
          rd.sawEoe /\ rd.m_endOfEpoch /\ rd.nData >= 1

\* the task launched past the end has been run by the prefetch thread
C17_Witness ==
    /\ rd.nPast = 1
    /\ rd.pc = "idle"
    /\ rd.m_launchType = "async"
    /\ rd.last = FalseAtOnce
    /\ rd.tasks[rd.m_prefetchTask].status = "ready"
    /\ rd.m_packer.pos = rd.nGot + 2

\* C18, for a previous epoch that has ended: the StartMinibatchLoop call with
\* an epoch size <= 0 leaves the end-of-epoch flag as it was, so that
\* GetMinibatch still returns false afterwards.
C18_FailedStartKeepsEndOfEpoch ==
    [][rd.sawEoe /\ rd'.call.op = "start" /\ rd'.call.size <= 0 =>
          rd'.m_endOfEpoch = rd.m_endOfEpoch]_vars

\* C19: the minibatch a GetMinibatch call consumes, and the data it delivers,
\* come from the packer in place, the one the last successful
\* StartMinibatchLoop created; when that call replaced the task held from
\* before, the task had been awaited, and it is dropped with its result.
C19_NoLeakAcrossEpochs ==
    /\ [][rd.pc = "get_await" /\ rd'.pc = "idle" =>
            /\ rd'.last.mb.tag[1] = rd.m_packer.id
            /\ rd'.last.ret = "true" => rd'.buf[1] = rd.m_packer.id]_vars
    /\ [][rd.pc = "start_assign" /\ rd'.pc = "idle" /\ rd.m_prefetchTask # 0 =>
            /\ rd.tasks[rd.m_prefetchTask].awaited
            /\ rd.m_prefetchTask \notin DOMAIN rd'.tasks
            /\ rd'.m_prefetchTask = rd.newTask]_vars

\* the first delivery of the second epoch
C19_Witness ==
    /\ rd.pc = "idle"
    /\ rd.m_randomizer = 2
    /\ rd.last.op = "get" /\ rd.last.ret = "true"
    /\ rd.nTrue = 1
    /\ rd.buf[1] = 2

HandlesHeld(z) == {z.th[t].zipFile : t \in Threads} \ {0}

BuffersHeld(z) == {z.th[t].contents : t \in Threads} \ {0}

Pooled(pool) == {pool[i] : i \in 1..Len(pool)}

\* C13: a handle or buffer taken from its pool is held by one thread only,
\* and is not in the pool while a thread holds it; the pool holds each handle
\* or buffer once.
C13_PoolExclusive ==
    /\ \A t, u \in Threads :
          t # u =>
            /\ zip.th[t].zipFile # 0 => zip.th[t].zipFile # zip.th[u].zipFile
            /\ zip.th[t].contents # 0 => zip.th[t].contents # zip.th[u].contents
    /\ HandlesHeld(zip) \cap Pooled(zip.m_zips) = {}
    /\ BuffersHeld(zip) \cap Pooled(zip.m_workspace) = {}
    /\ Cardinality(Pooled(zip.m_zips)) = Len(zip.m_zips)
    /\ Cardinality(Pooled(zip.m_workspace)) = Len(zip.m_workspace)

\* two threads read the archive at once, one through a handle it took from
\* the pool
C13_Witness ==
    /\ zip.th[1].pc = "read" /\ zip.th[2].pc = "read"
    /\ zip.th[1].reads = 1
    /\ zip.opened = 2

\* C14: the handles opened so far are those in use and those in the pool,
\* and are no more than the largest number of Read calls that were in
\* flight at once, which is at most the number of threads; and every Read
\* call returns.
C14_HandlesBoundedByPeak ==
    /\ [](/\ zip.opened = Cardinality(HandlesHeld(zip)) + Len(zip.m_zips)
          /\ zip.opened <= zip.peak
          /\ zip.peak <= NThreads)
    /\ \A t \in Threads : (zip.th[t].pc # "idle") ~> (zip.th[t].pc = "idle")

\* two Read calls overlapped, two handles were opened and both are back
C14_Witness ==
    /\ zip.opened = 2 /\ zip.peak = 2
    /\ InFlight(zip) = {}
    /\ Len(zip.m_zips) = 2
    /\ zip.th[1].reads = 2

====
